---- MODULE Spec2Model ----
(***************************************************************************)
(* A model of the data layer of the Field Activity Tracking System         *)
(* (src/storage.js): the localStorage-backed store, the driver / vehicle / *)
(* activity repository, the query functions, the summary tables, the       *)
(* summaries of the day, week and month, the summary page's custom report  *)
(* and the JSON export / import.                                           *)
(*                                                                         *)
(* Conventions.                                                            *)
(*  - A JSON text is represented by the value it denotes; JSONstringify    *)
(*    performs the normalisation that serialising does (NaN becomes null). *)
(*  - A JavaScript value held in a `revenue` / `cost` field is a tagged    *)
(*    record [t, v]; see JsNum, JsNaN, JsNull, JsNumericString, JsText.    *)
(*  - Strings that the code orders with < and > (dates, range bounds) are  *)
(*    ordered by StrRank, the code-unit order of the strings of the model. *)
(*  - A record is a function from field names to values, so that records   *)
(*    of the current and of the legacy schema live in the same list.       *)
(***************************************************************************)
EXTENDS Integers, Sequences, FiniteSets, TLC

VARIABLES
    localStorage,     \* key -> item: the browser's persistent store
    issued,           \* prefix -> how many ids generateId has issued
    download,         \* the file the last exportData produced (NoFile if none)
    atExport,         \* history: the three collections when `download` was written
    lastOp,           \* the operation that produced this state
    importFile,       \* the file handed to the last importDataFromFile
    onCompleteCalls,  \* what the last import passed to its onComplete, in order
    before,           \* history: localStorage before the last operation
    ops,              \* number of mutating operations performed
    call,             \* the last call: its arguments and what it returned
    summaryPage       \* the summary page: what initSummaryPage captured, and
                      \* the custom report it shows

vars == <<localStorage, issued, download, atExport, lastOp, importFile,
          onCompleteCalls, before, ops, call, summaryPage>>

----------------------------------------------------------------------------
(* Bounds *)

MaxOps == 2

\* the length of the activity lists that the queries are asked about
MaxLen == 3

----------------------------------------------------------------------------
(* JavaScript values of the numeric fields *)

JsNum(n) == [t |-> "number", v |-> n]
JsNaN == [t |-> "NaN", v |-> 0]
JsNull == [t |-> "null", v |-> 0]
JsUndefined == [t |-> "undefined", v |-> 0]
\* the string holding the decimal digits of n, e.g. "7"
JsNumericString(n) == [t |-> "numericString", v |-> n]
\* a non-empty string that is not a number, e.g. "abc"
JsText == [t |-> "text", v |-> 0]

\* !!x
Truthy(x) ==
    CASE x.t = "number" -> x.v # 0
      [] x.t = "numericString" -> TRUE
      [] x.t = "text" -> TRUE
      [] OTHER -> FALSE

\* x || y
OrElse(x, y) == IF Truthy(x) THEN x ELSE y

\* Number(x)
Number(x) ==
    CASE x.t = "number" -> x
      [] x.t = "numericString" -> JsNum(x.v)
      [] x.t = "null" -> JsNum(0)
      [] OTHER -> JsNaN

\* x + y on two numbers
Plus(x, y) == IF x.t = "NaN" \/ y.t = "NaN" THEN JsNaN ELSE JsNum(x.v + y.v)

NumFields == {"revenue", "cost"}

\* r.f, undefined when the record has no such field
Get(r, f) == IF f \in DOMAIN r THEN r[f] ELSE JsUndefined

\* { ...a, ...b }
Spread(a, b) ==
    [k \in DOMAIN a \cup DOMAIN b |-> IF k \in DOMAIN b THEN b[k] ELSE a[k]]

----------------------------------------------------------------------------
(* JSON *)

\* JSON.stringify of one value of a numeric field: NaN is written as null
StringifyValue(x) == IF x.t = "NaN" THEN JsNull ELSE x

StringifyRecord(r) ==
    [k \in DOMAIN r |-> IF k \in NumFields THEN StringifyValue(r[k]) ELSE r[k]]

\* JSON.stringify(list): the text, represented by the value it denotes
JSONstringify(list) == [i \in 1..Len(list) |-> StringifyRecord(list[i])]

----------------------------------------------------------------------------
(* Store *)

STORAGE_KEYS ==
    [drivers |-> "fleet_drivers", vehicles |-> "fleet_vehicles",
     activities |-> "fleet_activities"]

Keys == {STORAGE_KEYS.drivers, STORAGE_KEYS.vehicles, STORAGE_KEYS.activities}

\* localStorage.getItem(key) is null
Absent == [t |-> "absent", v |-> <<>>]
\* localStorage holds the text of an array
ArrayText(list) == [t |-> "array", v |-> list]

loadList(store, key) == IF store[key].t = "array" THEN store[key].v ELSE <<>>

saveList(store, key, list) ==
    [store EXCEPT ![key] = ArrayText(JSONstringify(list))]

drivers == loadList(localStorage, STORAGE_KEYS.drivers)
vehicles == loadList(localStorage, STORAGE_KEYS.vehicles)
activities == loadList(localStorage, STORAGE_KEYS.activities)

Collections(store) ==
    [drivers |-> loadList(store, STORAGE_KEYS.drivers),
     vehicles |-> loadList(store, STORAGE_KEYS.vehicles),
     activities |-> loadList(store, STORAGE_KEYS.activities)]

\* crypto.randomUUID() never repeats a value: the n-th id of a prefix
generateId(prefix, n) == prefix \o "-" \o ToString(n)

Ids(list) == {list[i].id : i \in 1..Len(list)}

\* list.findIndex((r) => r.id === id); 0 stands for -1
findIndex(list, id) ==
    IF \E i \in 1..Len(list) : list[i].id = id
    THEN CHOOSE i \in 1..Len(list) :
            list[i].id = id /\ \A j \in 1..(i - 1) : list[j].id # id
    ELSE 0

----------------------------------------------------------------------------
(* Entity repository *)

\* name.trim(), on the strings the model passes
trim(s) ==
    CASE s = " Ben " -> "Ben"
      [] s = "GT-5678 " -> "GT-5678"
      [] s = "  " -> ""
      [] OTHER -> s

\* { id: generateId("drv"), name: name.trim(), assignedVehicleId }
newDriver(id, name, assignedVehicleId) ==
    [id |-> id, name |-> trim(name), assignedVehicleId |-> assignedVehicleId]

addDriver(store, id, name, assignedVehicleId) ==
    LET list == loadList(store, STORAGE_KEYS.drivers)
    IN  saveList(store, STORAGE_KEYS.drivers,
                 Append(list, newDriver(id, name, assignedVehicleId)))

\* null, where a caller expects a record
NoRecord == [null |-> TRUE]

\* what updateDriver and updateActivity return: null when no record has the
\* id, and otherwise the merged record, which is the object in memory and
\* not its JSON text
updated(list, id, fields) ==
    LET idx == findIndex(list, id)
    IN  IF idx > 0 THEN Spread(list[idx], fields) ELSE NoRecord

updateDriver(store, driverId, fields) ==
    LET list == loadList(store, STORAGE_KEYS.drivers)
        idx == findIndex(list, driverId)
    IN  IF idx > 0
        THEN saveList(store, STORAGE_KEYS.drivers,
                      [list EXCEPT ![idx] = Spread(list[idx], fields)])
        ELSE store

addVehicle(store, id, label) ==
    LET list == loadList(store, STORAGE_KEYS.vehicles)
        newVehicle == [id |-> id, label |-> trim(label)]
    IN  saveList(store, STORAGE_KEYS.vehicles, Append(list, newVehicle))

\* { id: generateId("act"), ...activity }
newActivity(id, activity) == Spread([id |-> id], activity)

addActivity(store, id, activity) ==
    LET list == loadList(store, STORAGE_KEYS.activities)
    IN  saveList(store, STORAGE_KEYS.activities,
                 Append(list, newActivity(id, activity)))

\* updateActivity with the spread the other way round: { ...fields, ...old }
updateActivity_OldOverFields(store, activityId, fields) ==
    LET list == loadList(store, STORAGE_KEYS.activities)
        idx == findIndex(list, activityId)
    IN  IF idx > 0
        THEN saveList(store, STORAGE_KEYS.activities,
                      [list EXCEPT ![idx] = Spread(fields, list[idx])])
        ELSE store

updateActivity(store, activityId, fields) ==
    LET list == loadList(store, STORAGE_KEYS.activities)
        idx == findIndex(list, activityId)
    IN  IF idx > 0
        THEN saveList(store, STORAGE_KEYS.activities,
                      [list EXCEPT ![idx] = Spread(list[idx], fields)])
        ELSE store

deleteActivity(store, activityId) ==
    LET list == loadList(store, STORAGE_KEYS.activities)
        keep(a) == a.id # activityId
    IN  saveList(store, STORAGE_KEYS.activities, SelectSeq(list, keep))

----------------------------------------------------------------------------
(* Query functions *)

\* the argument a caller leaves out (the parameter's default, null)
null == "<null>"

\* the rank of a string in the code-unit order that < and > use on strings
StrRank(s) ==
    CASE s = "" -> 0
      [] s = "2026-01-01" -> 1
      [] s = "2026-01-10" -> 2
      [] s = "2026-01-11" -> 3
      [] s = "2026-01-12" -> 4
      [] s = "n/a" -> 5

\* a < b on two strings
StrLess(a, b) == StrRank(a) < StrRank(b)

\* the truth value of a bound: null and "" are falsy
given(bound) == bound # null /\ bound # ""

\* getActivitiesByDriver with a closed start bound turned into an open one
getActivitiesByDriver_OpenStart(list, driverId, startDate, endDate) ==
    LET keep(a) ==
          /\ ~(a.driverId # driverId)
          /\ ~(given(startDate) /\ ~StrLess(startDate, a.date))
          /\ ~(given(endDate) /\ StrLess(endDate, a.date))
    IN  SelectSeq(list, keep)

getActivitiesByDriver(list, driverId, startDate, endDate) ==
    LET keep(a) ==
          /\ ~(a.driverId # driverId)
          /\ ~(given(startDate) /\ StrLess(a.date, startDate))
          /\ ~(given(endDate) /\ StrLess(endDate, a.date))
    IN  SelectSeq(list, keep)

getActivitiesByVehicle(list, vehicleId, startDate, endDate) ==
    LET keep(a) ==
          /\ ~(a.vehicleId # vehicleId)
          /\ ~(given(startDate) /\ StrLess(a.date, startDate))
          /\ ~(given(endDate) /\ StrLess(endDate, a.date))
    IN  SelectSeq(list, keep)

\* getActivitiesByPeriod with the end of the range left out of it
getActivitiesByPeriod_OpenEnd(list, startDate, endDate) ==
    LET keep(a) == ~StrLess(a.date, startDate) /\ StrLess(a.date, endDate)
    IN  SelectSeq(list, keep)

\* both arguments are strings
getActivitiesByPeriod(list, startDate, endDate) ==
    LET keep(a) == ~StrLess(a.date, startDate) /\ ~StrLess(endDate, a.date)
    IN  SelectSeq(list, keep)

----------------------------------------------------------------------------
(* Summaries *)

\* Number(a.revenue || 0)
revenueOf(a) == Number(OrElse(Get(a, "revenue"), JsNum(0)))

\* list.reduce((sum, a) => sum + Number(a.revenue || 0), 0)
RECURSIVE sumRevenue(_)
sumRevenue(list) ==
    IF list = <<>> THEN JsNum(0)
    ELSE Plus(sumRevenue(SubSeq(list, 1, Len(list) - 1)),
              revenueOf(list[Len(list)]))

\* the overall summary of initSummaryPage
overallTotals(list) ==
    [totalActivities |-> Len(list), totalRevenue |-> sumRevenue(list)]

\* the rank of a name or label in the order of localeCompare
LocaleRank(s) ==
    CASE s = "" -> 0
      [] s = "Abu" -> 1
      [] s = "Ama" -> 2
      [] s = "AS-1" -> 3
      [] s = "AS-2" -> 4
      [] s = "Ben" -> 5
      [] s = "GT-1234" -> 6
      [] s = "GT-5678" -> 7
      [] s = "Kofi" -> 8
      [] s = "Zed" -> 9

\* a.localeCompare(b)
localeCompare(a, b) ==
    IF LocaleRank(a) < LocaleRank(b) THEN -1
    ELSE IF LocaleRank(a) > LocaleRank(b) THEN 1 ELSE 0

\* the comparator without its tie-break on the name
compareRows_NoTieBreak(a, b, key) == b.total - a.total

\* (a, b) => b.total - a.total || a[key].localeCompare(b[key])
compareRows(a, b, key) ==
    IF b.total - a.total # 0 THEN b.total - a.total
    ELSE localeCompare(a[key], b[key])

\* one step of a stable sort: row goes behind the rows that do not follow it
RECURSIVE insertRow(_, _, _)
insertRow(sorted, row, key) ==
    IF sorted = <<>> THEN <<row>>
    ELSE IF compareRows(sorted[Len(sorted)], row, key) <= 0
         THEN Append(sorted, row)
         ELSE Append(insertRow(SubSeq(sorted, 1, Len(sorted) - 1), row, key),
                     sorted[Len(sorted)])

\* rows.sort(compare): Array.prototype.sort is stable
RECURSIVE sortRows(_, _)
sortRows(rows, key) ==
    IF rows = <<>> THEN <<>>
    ELSE insertRow(sortRows(SubSeq(rows, 1, Len(rows) - 1), key),
                   rows[Len(rows)], key)

\* the rows renderDriverRouteSummary writes into the driver summary table
renderDriverRouteSummary(driverList, activityList) ==
    LET of(d) == LET mine(a) == a.driverId = d.id
                 IN  SelectSeq(activityList, mine)
        counts == [i \in 1..Len(driverList) |->
                     [id |-> driverList[i].id, name |-> driverList[i].name,
                      total |-> Len(of(driverList[i])),
                      revenue |-> sumRevenue(of(driverList[i]))]]
    IN  sortRows(counts, "name")

\* the rows renderVehicleSummary writes into the vehicle summary table
renderVehicleSummary(vehicleList, activityList) ==
    LET of(v) == LET mine(a) == a.vehicleId = v.id
                 IN  SelectSeq(activityList, mine)
        counts == [i \in 1..Len(vehicleList) |->
                     [id |-> vehicleList[i].id, label |-> vehicleList[i].label,
                      total |-> Len(of(vehicleList[i])),
                      revenue |-> sumRevenue(of(vehicleList[i]))]]
    IN  sortRows(counts, "label")

----------------------------------------------------------------------------
(* The last activity, and the summaries of today, the week and the month *)

\* the model's unit of time is the hour; time 0 is 2026-01-01T00:00Z
HoursPerDay == 24

\* the dates that new Date(...) can parse
WellFormed(isoDate) ==
    isoDate \in {"2026-01-01", "2026-01-10", "2026-01-11", "2026-01-12"}

DayNumber(isoDate) ==
    CASE isoDate = "2026-01-01" -> 0
      [] isoDate = "2026-01-10" -> 9
      [] isoDate = "2026-01-11" -> 10
      [] isoDate = "2026-01-12" -> 11

\* new Date(isoDate) as a number: midnight UTC of the day, NaN for a text
\* that is not a date
DateParse(isoDate) ==
    IF WellFormed(isoDate)
    THEN JsNum(DayNumber(isoDate) * HoursPerDay) ELSE JsNaN

\* x - y on two numbers
Minus(x, y) == IF x.t = "NaN" \/ y.t = "NaN" THEN JsNaN ELSE JsNum(x.v - y.v)

\* (a, b) => new Date(b.date) - new Date(a.date), as sort reads it: a
\* comparator's NaN counts as 0
compareByDateDesc(a, b) ==
    LET v == Minus(DateParse(b.date), DateParse(a.date))
    IN  IF v.t = "NaN" THEN 0 ELSE v.v

\* one step of the sort: a goes behind the records that do not follow it
RECURSIVE insertByDate(_, _)
insertByDate(sorted, a) ==
    IF sorted = <<>> THEN <<a>>
    ELSE IF compareByDateDesc(sorted[Len(sorted)], a) <= 0
         THEN Append(sorted, a)
         ELSE Append(insertByDate(SubSeq(sorted, 1, Len(sorted) - 1), a),
                     sorted[Len(sorted)])

\* list.sort((a, b) => new Date(b.date) - new Date(a.date)): the engines
\* sort a short array by insertion
RECURSIVE sortByDateDesc(_)
sortByDateDesc(list) ==
    IF list = <<>> THEN <<>>
    ELSE insertByDate(sortByDateDesc(SubSeq(list, 1, Len(list) - 1)),
                      list[Len(list)])

getLastActivityByDriver(list, driverId) ==
    LET mine(a) == a.driverId = driverId
        found == SelectSeq(list, mine)
    IN  IF Len(found) = 0 THEN NoRecord ELSE sortByDateDesc(found)[1]

getLastActivityByVehicle(list, vehicleId) ==
    LET mine(a) == a.vehicleId = vehicleId
        found == SelectSeq(list, mine)
    IN  IF Len(found) = 0 THEN NoRecord ELSE sortByDateDesc(found)[1]

\* new Date().toISOString().slice(0, 10) when the clock reads `now`
getTodayString(now) ==
    LET day == now \div HoursPerDay
    IN  CASE day = 7 -> "2026-01-08"
          [] day = 11 -> "2026-01-12"
          [] day = 35 -> "2026-02-05"

isSameISO(dateA, dateB) == dateA = dateB

\* isWithinDays with < in place of <=
isWithinDays_Strict(isoDate, daysBack, now) ==
    LET diffMs == Minus(JsNum(now), DateParse(isoDate))
    IN  diffMs.t = "number" /\ diffMs.v < daysBack * HoursPerDay

\* diffMs / (a day) <= daysBack when the clock reads `now`; a comparison
\* with NaN is false
isWithinDays(isoDate, daysBack, now) ==
    LET diffMs == Minus(JsNum(now), DateParse(isoDate))
    IN  diffMs.t = "number" /\ diffMs.v <= daysBack * HoursPerDay

\* computeSummary's summarize, given the activities that pass its filter
summarize(counted) ==
    [totalActivities |-> Len(counted), totalRevenue |-> sumRevenue(counted)]

\* computeSummary with the week's and the month's windows exchanged
computeSummary_WindowsExchanged(list, now) ==
    LET today == getTodayString(now[1])
        daily(a) == isSameISO(a.date, today)
        weekly(a) == isWithinDays(a.date, 30, now[2])
        monthly(a) == isWithinDays(a.date, 7, now[3])
    IN  [daily |-> summarize(SelectSeq(list, daily)),
         weekly |-> summarize(SelectSeq(list, weekly)),
         monthly |-> summarize(SelectSeq(list, monthly))]

\* computeSummary; now[1], now[2] and now[3] are what the clock reads when
\* today's date is taken and during the weekly and the monthly pass
computeSummary(list, now) ==
    LET today == getTodayString(now[1])
        daily(a) == isSameISO(a.date, today)
        weekly(a) == isWithinDays(a.date, 7, now[2])
        monthly(a) == isWithinDays(a.date, 30, now[3])
    IN  [daily |-> summarize(SelectSeq(list, daily)),
         weekly |-> summarize(SelectSeq(list, weekly)),
         monthly |-> summarize(SelectSeq(list, monthly))]

----------------------------------------------------------------------------
(* Export / import *)

Missing == [t |-> "missing", v |-> <<>>]
\* a field that is present but is not an array (a string, a number, an object)
NotArray == [t |-> "other", v |-> <<>>]
ArrayField(list) == [t |-> "array", v |-> list]

\* Array.isArray(x)
isArray(x) == x.t = "array"

\* A file: text that does not parse ("garbage"), or the text of a JSON
\* primitive, array or object; an object's four collection fields are given.
File(kind, d, v, a, r, at, ver) ==
    [kind |-> kind, drivers |-> d, vehicles |-> v, activities |-> a,
     routes |-> r, exportedAt |-> at, version |-> ver]

NoFile == File("none", Missing, Missing, Missing, Missing, "", 0)

\* the payload of exportData, serialised
exportData(store, now) ==
    File("object",
         ArrayField(JSONstringify(loadList(store, STORAGE_KEYS.drivers))),
         ArrayField(JSONstringify(loadList(store, STORAGE_KEYS.vehicles))),
         ArrayField(JSONstringify(loadList(store, STORAGE_KEYS.activities))),
         Missing, now, 2)

\* JSON.parse(text) does not throw
parses(file) == file.kind \in {"primitive", "array", "object"}

\* isObject without the typeof test: every text that parses is let through
isObject_NoTypeTest(file) == TRUE

\* parsed && typeof parsed === "object", for a text that parses.  A primitive
\* text is a number, a string, a boolean or null.
isObject(file) == file.kind \in {"array", "object"}

\* the import goes through to the three saves
accepted(file) == parses(file) /\ isObject(file)

importedDrivers(parsed) ==
    IF isArray(parsed.drivers) THEN parsed.drivers.v ELSE <<>>

\* importedVehicles reading the drivers field (a copied line left unedited)
importedVehicles_FromDrivers(parsed) ==
    IF isArray(parsed.vehicles) THEN parsed.drivers.v ELSE <<>>

importedVehicles(parsed) ==
    IF isArray(parsed.vehicles) THEN parsed.vehicles.v ELSE <<>>

\* the conversion addRoute applies to a legacy record
convertedRoute(route) ==
    [id |-> route.id, driverId |-> route.driverId,
     vehicleId |-> route.vehicleId,
     location |-> IF "routeName" \in DOMAIN route THEN route.routeName ELSE "",
     date |-> route.date,
     revenue |-> OrElse(Get(route, "cost"), JsNum(0))]

\* importedActivities translating the legacy records as addRoute does
importedActivities_Converting(parsed) ==
    IF isArray(parsed.activities) THEN parsed.activities.v
    ELSE IF isArray(parsed.routes)
         THEN [i \in 1..Len(parsed.routes.v) |-> convertedRoute(parsed.routes.v[i])]
         ELSE <<>>

importedActivities(parsed) ==
    IF isArray(parsed.activities) THEN parsed.activities.v
    ELSE IF isArray(parsed.routes) THEN parsed.routes.v
    ELSE <<>>

\* importedStore merging the file into the store instead of replacing it
importedStore_Merge(store, file) ==
    IF accepted(file)
    THEN saveList(
           saveList(
             saveList(store, STORAGE_KEYS.drivers,
                      loadList(store, STORAGE_KEYS.drivers) \o importedDrivers(file)),
             STORAGE_KEYS.vehicles,
             loadList(store, STORAGE_KEYS.vehicles) \o importedVehicles(file)),
           STORAGE_KEYS.activities,
           loadList(store, STORAGE_KEYS.activities) \o importedActivities(file))
    ELSE store

\* the store after reader.onload has run on the file
importedStore(store, file) ==
    IF accepted(file)
    THEN saveList(
           saveList(
             saveList(store, STORAGE_KEYS.drivers, importedDrivers(file)),
             STORAGE_KEYS.vehicles, importedVehicles(file)),
           STORAGE_KEYS.activities, importedActivities(file))
    ELSE store

\* the calls reader.onload makes to onComplete: the success call is inside
\* the try block, so an exception raised by the callback reaches the catch.
importCalls(file, callbackThrows) ==
    IF accepted(file)
    THEN IF callbackThrows THEN <<"ok", "err">> ELSE <<"ok">>
    ELSE <<"err">>

----------------------------------------------------------------------------
(* The summary page *)

\* the page is not the summary page
NotOpen == [open |-> FALSE, activities |-> <<>>, resultsDiv |-> <<>>]

\* initSummaryPage: the handlers it installs close over the list it loaded
initSummaryPage(store) ==
    [open |-> TRUE, activities |-> loadList(store, STORAGE_KEYS.activities),
     resultsDiv |-> <<>>]

\* the submit handler's test with >= in place of >
rejected_NotBefore(startDate, endDate) == ~StrLess(startDate, endDate)

\* startDate > endDate, on the two values of the form
rejected(startDate, endDate) == StrLess(endDate, startDate)

\* what the submit handler writes into the results element: the heading's two
\* dates, the number of activities and the revenue (shown with toFixed(2))
customReport(list, startDate, endDate) ==
    LET keep(a) == ~StrLess(a.date, startDate) /\ ~StrLess(endDate, a.date)
        periodActivities == SelectSeq(list, keep)
    IN  [startDate |-> startDate, endDate |-> endDate,
         count |-> Len(periodActivities),
         revenue |-> sumRevenue(periodActivities)]

----------------------------------------------------------------------------
(* Inputs of the model *)

Activity(d, v, loc, date, rev) ==
    [driverId |-> d, vehicleId |-> v, location |-> loc, date |-> date,
     revenue |-> rev]

\* a record of the legacy schema
Route(id, d, v, name, date, cost) ==
    [id |-> id, driverId |-> d, vehicleId |-> v, routeName |-> name,
     date |-> date, cost |-> cost]

Driver(id, name, av) == [id |-> id, name |-> name, assignedVehicleId |-> av]

Vehicle(id, label) == [id |-> id, label |-> label]

\* the driver form's name and assigned vehicle
DriverInputs == {<<" Ben ", "">>, <<"Abu", "veh-1">>, <<"  ", "">>}
VehicleLabelInputs == {"GT-5678 "}

\* what a caller passes to addActivity: the form's payload (a negative amount,
\* an amount that is not a number and a date that is not a date included)
ActivityInputs ==
    { Activity("drv-1", "veh-1", "Tema", "2026-01-11", JsNum(50)),
      Activity("drv-2", "veh-1", "", "2026-01-12", JsNum(-5)),
      Activity("drv-1", "veh-2", "Tema", "n/a", JsNaN) }

\* ... or a record that already carries an id, such as one read from the list
ActivityInputsWithId(list) ==
    { Spread(Activity("drv-2", "veh-2", "Tema", "2026-01-11", JsNum(50)),
             [id |-> i]) : i \in Ids(list) }

ActivityFieldInputs ==
    { [revenue |-> JsNum(75), date |-> "2026-01-10"],
      [id |-> "act-1", driverId |-> "drv-2"] }

DriverFieldInputs == { [name |-> "Zed"], [id |-> "drv-1"] }

\* the clock readings at an export
Instants == {"2026-01-12T09:00:00.000Z"}

LegacyRoute == Route("rte-1", "drv-1", "veh-1", "X", "2026-01-01", JsNum(50))

\* the files a user may pick, besides the file of an earlier export
FileInputs ==
    { File("garbage", Missing, Missing, Missing, Missing, "", 0),
      File("primitive", Missing, Missing, Missing, Missing, "", 0),
      File("array", Missing, Missing, Missing, Missing, "", 0),
      File("object", Missing, Missing, Missing, Missing, "", 0),
      File("object", Missing, Missing, Missing,
           ArrayField(<<LegacyRoute>>), "", 0),
      File("object", NotArray, Missing, NotArray,
           ArrayField(<<LegacyRoute>>), "", 1),
      File("object",
           ArrayField(<<Driver("d-7", "Kofi", "")>>),
           ArrayField(<<Vehicle("v-7", "AS-1"), Vehicle("v-8", "AS-2")>>),
           ArrayField(<<Spread([id |-> "a-7"],
                               Activity("d-7", "v-7", "Ho", "2026-01-11",
                                        JsText)),
                        Spread([id |-> "a-8"],
                               Activity("d-7", "v-8", "Ho", "2026-01-12",
                                        JsNumericString(7)))>>),
           ArrayField(<<LegacyRoute>>), "2026-01-01T00:00:00.000Z", 2) }

\* the values of the custom report form's two date inputs
FormDateInputs == {"", "2026-01-10", "2026-01-12"}

\* an operation that takes no argument the properties refer to
NoCall == [ret |-> NoRecord]

\* the activities of the stores that the queries are asked about (their
\* revenues are distinct powers of two: a total tells what was summed)
QueryActivities ==
    { Spread([id |-> "a-1"],
             Activity("drv-1", "veh-1", "Ho", "2026-01-10", JsNum(1))),
      Spread([id |-> "a-2"],
             Activity("drv-1", "veh-1", "Ho", "n/a", JsNum(2))),
      Spread([id |-> "a-3"],
             Activity("drv-1", "veh-2", "Ho", "2026-01-12", JsNum(4))),
      Spread([id |-> "a-4"],
             Activity("drv-2", "veh-1", "Ho", "2026-01-01", JsNum(8))) }

\* the lists of at most MaxLen of them, each at most once
QueryLists ==
    { list \in UNION {[1..n -> QueryActivities] : n \in 0..MaxLen} :
        \A i, j \in 1..Len(list) : i # j => list[i] # list[j] }

\* what the clock reads when computeSummary starts, in hours since
\* 2026-01-01T00:00Z: 2026-01-08T00:00, 2026-01-12T09:00, 2026-01-12T23:00
\* and 2026-02-05T12:00
ClockInputs == {168, 273, 287, 852}

\* by how many hours the clock moves on between two readings of one call
ClockStepInputs == {0, 1}

EmptyStore == [k \in Keys |-> Absent]

\* the store of the worked example: one driver, one vehicle, two activities
ScenarioStore ==
    [k \in Keys |->
        CASE k = STORAGE_KEYS.drivers ->
                ArrayText(<<Driver("drv-1", "Ama", "veh-1")>>)
          [] k = STORAGE_KEYS.vehicles ->
                ArrayText(<<Vehicle("veh-1", "GT-1234")>>)
          [] k = STORAGE_KEYS.activities ->
                ArrayText(<<
                  Spread([id |-> "act-1"],
                         Activity("drv-1", "veh-1", "Accra", "2026-01-10",
                                  JsNum(150))),
                  Spread([id |-> "act-2"],
                         Activity("drv-1", "veh-1", "Kumasi", "2026-01-12",
                                  JsNum(200)))>>)]

----------------------------------------------------------------------------
(* The state machine *)

\* A page load finds the store as an earlier session left it: empty, or
\* holding the worked example (with the ids that its records were issued).
Loaded ==
    /\ \/ localStorage = EmptyStore /\ issued = [drv |-> 0, veh |-> 0, act |-> 0]
       \/ localStorage = ScenarioStore /\ issued = [drv |-> 1, veh |-> 1, act |-> 2]
    /\ download = NoFile
    /\ atExport = Collections(EmptyStore)
    /\ lastOp = "load"
    /\ importFile = NoFile
    /\ onCompleteCalls = <<>>
    /\ before = localStorage
    /\ ops = 0
    /\ call = NoCall

\* ... on a page other than the summary page
Init == Loaded /\ summaryPage = NotOpen

Mutation(op) ==
    /\ ops < MaxOps
    /\ ops' = ops + 1
    /\ lastOp' = op
    /\ before' = localStorage
    /\ UNCHANGED summaryPage

AddDriver ==
    /\ Mutation("addDriver")
    /\ \E in \in DriverInputs :
          LET id == generateId("drv", issued.drv + 1)
          IN  /\ localStorage' = addDriver(localStorage, id, in[1], in[2])
              /\ call' = [name |-> in[1], assignedVehicleId |-> in[2],
                          ret |-> newDriver(id, in[1], in[2])]
    /\ issued' = [issued EXCEPT !.drv = @ + 1]
    /\ UNCHANGED <<download, atExport, importFile, onCompleteCalls>>

UpdateDriver ==
    /\ Mutation("updateDriver")
    /\ \E id \in Ids(drivers) \cup {"drv-0"}, fields \in DriverFieldInputs :
          /\ localStorage' = updateDriver(localStorage, id, fields)
          /\ call' = [id |-> id, fields |-> fields,
                      ret |-> updated(drivers, id, fields)]
    /\ UNCHANGED <<issued, download, atExport, importFile, onCompleteCalls>>

AddVehicle ==
    /\ Mutation("addVehicle")
    /\ \E label \in VehicleLabelInputs :
          localStorage' = addVehicle(localStorage,
                                     generateId("veh", issued.veh + 1), label)
    /\ call' = NoCall
    /\ issued' = [issued EXCEPT !.veh = @ + 1]
    /\ UNCHANGED <<download, atExport, importFile, onCompleteCalls>>

AddActivity ==
    /\ Mutation("addActivity")
    /\ \E a \in ActivityInputs \cup ActivityInputsWithId(activities) :
          localStorage' = addActivity(localStorage,
                                      generateId("act", issued.act + 1), a)
    /\ call' = NoCall
    /\ issued' = [issued EXCEPT !.act = @ + 1]
    /\ UNCHANGED <<download, atExport, importFile, onCompleteCalls>>

UpdateActivity ==
    /\ Mutation("updateActivity")
    /\ \E id \in Ids(activities) \cup {"act-0"}, fields \in ActivityFieldInputs :
          /\ localStorage' = updateActivity(localStorage, id, fields)
          /\ call' = [id |-> id, fields |-> fields,
                      ret |-> updated(activities, id, fields)]
    /\ UNCHANGED <<issued, download, atExport, importFile, onCompleteCalls>>

DeleteActivity ==
    /\ Mutation("deleteActivity")
    /\ \E id \in Ids(activities) \cup {"act-0"} :
          localStorage' = deleteActivity(localStorage, id)
    /\ call' = NoCall
    /\ UNCHANGED <<issued, download, atExport, importFile, onCompleteCalls>>

\* the export button: the browser saves the payload as a file
ExportData ==
    /\ \E now \in Instants : download' = exportData(localStorage, now)
    /\ atExport' = Collections(localStorage)
    /\ lastOp' = "exportData"
    /\ before' = localStorage
    /\ call' = NoCall
    /\ UNCHANGED <<localStorage, issued, importFile, onCompleteCalls, ops,
                   summaryPage>>

\* the import input: the user picks a file, the reader loads it, and
\* reader.onload parses, saves and calls back
ImportDataFromFile ==
    /\ Mutation("importDataFromFile")
    /\ \E file \in FileInputs \cup ({download} \ {NoFile}),
          callbackThrows \in BOOLEAN :
          /\ importFile' = file
          /\ localStorage' = importedStore(localStorage, file)
          /\ onCompleteCalls' = importCalls(file, callbackThrows)
    /\ call' = NoCall
    /\ UNCHANGED <<issued, download, atExport>>

Next ==
    \/ AddDriver
    \/ UpdateDriver
    \/ AddVehicle
    \/ AddActivity
    \/ UpdateActivity
    \/ DeleteActivity
    \/ ExportData
    \/ ImportDataFromFile

Spec == Init /\ [][Next]_vars

----------------------------------------------------------------------------
(* The summary page as a state machine: the page is loaded, and the user  *)
(* submits the custom report form, imports and exports.                   *)

InitSummary == Loaded /\ summaryPage = initSummaryPage(localStorage)

\* the page is loaded again
InitSummaryPage ==
    /\ summaryPage.open
    /\ summaryPage' = initSummaryPage(localStorage)
    /\ lastOp' = "initSummaryPage"
    /\ before' = localStorage
    /\ call' = NoCall
    /\ UNCHANGED <<localStorage, issued, download, atExport, importFile,
                   onCompleteCalls, ops>>

\* the custom report form is submitted
CustomReportSubmit ==
    /\ summaryPage.open
    /\ ops < MaxOps
    /\ ops' = ops + 1
    /\ lastOp' = "customReport"
    /\ before' = localStorage
    /\ \E startDate \in FormDateInputs, endDate \in FormDateInputs :
          IF rejected(startDate, endDate)
          THEN /\ call' = [startDate |-> startDate, endDate |-> endDate,
                           ret |-> "alert"]
               /\ UNCHANGED summaryPage
          ELSE /\ call' = [startDate |-> startDate, endDate |-> endDate,
                           ret |-> "rendered"]
               /\ summaryPage' =
                     [summaryPage EXCEPT !.resultsDiv =
                        <<customReport(summaryPage.activities,
                                       startDate, endDate)>>]
    /\ UNCHANGED <<localStorage, issued, download, atExport, importFile,
                   onCompleteCalls>>

NextSummary ==
    \/ InitSummaryPage
    \/ CustomReportSubmit
    \/ ImportDataFromFile
    \/ ExportData

SpecSummary == InitSummary /\ [][NextSummary]_vars

----------------------------------------------------------------------------
(* The queries as a state machine: a page is loaded on a store that an    *)
(* earlier session left, and asks for last activities and for the summary. *)

InitQuery ==
    /\ \E list \in QueryLists :
          localStorage = saveList(EmptyStore, STORAGE_KEYS.activities, list)
    /\ issued = [drv |-> 0, veh |-> 0, act |-> 0]
    /\ download = NoFile
    /\ atExport = Collections(EmptyStore)
    /\ lastOp = "load"
    /\ importFile = NoFile
    /\ onCompleteCalls = <<>>
    /\ before = localStorage
    /\ ops = 0
    /\ call = NoCall
    /\ summaryPage = NotOpen

Query(op) ==
    /\ lastOp' = op
    /\ before' = localStorage
    /\ UNCHANGED <<localStorage, issued, download, atExport, importFile,
                   onCompleteCalls, ops, summaryPage>>

GetLastActivityByDriver ==
    /\ Query("getLastActivityByDriver")
    /\ \E driverId \in {"drv-1", "drv-2"} :
          call' = [id |-> driverId,
                   ret |-> getLastActivityByDriver(activities, driverId)]

GetLastActivityByVehicle ==
    /\ Query("getLastActivityByVehicle")
    /\ \E vehicleId \in {"veh-1", "veh-2"} :
          call' = [id |-> vehicleId,
                   ret |-> getLastActivityByVehicle(activities, vehicleId)]

ComputeSummary ==
    /\ Query("computeSummary")
    /\ \E t \in ClockInputs, d1 \in ClockStepInputs, d2 \in ClockStepInputs :
          LET now == <<t, t + d1, t + d1 + d2>>
          IN  call' = [now |-> now, ret |-> computeSummary(activities, now)]

NextQuery ==
    \/ GetLastActivityByDriver
    \/ GetLastActivityByVehicle
    \/ ComputeSummary

SpecQuery == InitQuery /\ [][NextQuery]_vars

----------------------------------------------------------------------------
(* Properties: identifiers, export and import *)

UniqueIds(list) ==
    \A i, j \in 1..Len(list) : i # j => list[i].id # list[j].id

Imported == lastOp = "importDataFromFile"

\* the import told its caller that it succeeded
ImportSucceeded == Imported /\ onCompleteCalls # <<>> /\ onCompleteCalls[1] = "ok"

\* the file's text is not the text of a JSON object or array
NotStructured(file) == file.kind \in {"garbage", "primitive"}

\* the file's field when it is a sequence, the empty sequence otherwise
SequenceOrEmpty(field) == IF field.t = "array" THEN field.v ELSE <<>>

\* C1: in every reachable state no two records of one collection have the
\* same id, and the record addActivity appends carries the id that
\* generateId has just issued, whatever fields the caller passed.
C1_UniqueIds ==
    /\ UniqueIds(drivers)
    /\ UniqueIds(vehicles)
    /\ UniqueIds(activities)
    /\ lastOp = "addActivity" =>
          activities[Len(activities)].id = generateId("act", issued.act)

\* C2: after importing the file that exportData produced, the drivers,
\* vehicles and activities collections are equal, in content and order, to
\* the collections at the time of the export.
C2_RoundTrip ==
    (Imported /\ download # NoFile /\ importFile = download) =>
        Collections(localStorage) = atExport

C2_Witness ==
    /\ Imported /\ download # NoFile /\ importFile = download
    /\ Len(atExport.drivers) > 0 /\ Len(atExport.vehicles) > 0
    /\ Len(atExport.activities) > 1
    /\ Collections(before) # atExport

\* C3 as stated: after a successful import each collection is the file's
\* field of the same name when that is a sequence, and empty otherwise.
C3_FullReplaceByName ==
    ImportSucceeded =>
        /\ drivers = SequenceOrEmpty(importFile.drivers)
        /\ vehicles = SequenceOrEmpty(importFile.vehicles)
        /\ activities = SequenceOrEmpty(importFile.activities)

\* C3: after a successful import drivers and vehicles are the file's fields
\* of the same name when those are sequences and empty otherwise; activities
\* is the file's activities when that is a sequence, else the file's routes
\* when that is a sequence, else empty.  Nothing of the earlier store
\* remains beyond what the file itself holds.
C3_FullReplace ==
    ImportSucceeded =>
        /\ drivers = SequenceOrEmpty(importFile.drivers)
        /\ vehicles = SequenceOrEmpty(importFile.vehicles)
        /\ activities =
             IF importFile.activities.t = "array" THEN importFile.activities.v
             ELSE SequenceOrEmpty(importFile.routes)

C3_Witness ==
    /\ ImportSucceeded
    /\ Len(loadList(before, STORAGE_KEYS.drivers)) > 0
    /\ Len(loadList(before, STORAGE_KEYS.activities)) > 0
    /\ importFile.drivers.t = "other"
    /\ importFile.vehicles.t = "missing"
    /\ drivers = <<>> /\ vehicles = <<>>

\* C4: when the file's text is not a structured document, the import makes
\* exactly one call to its callback, reporting the failure, and the store
\* is what it was before the import.
C4_RejectedImportKeepsStore ==
    (Imported /\ NotStructured(importFile)) =>
        /\ onCompleteCalls = <<"err">>
        /\ localStorage = before

C4_Witness ==
    /\ Imported /\ importFile.kind = "primitive"
    /\ Len(drivers) > 0 /\ Len(vehicles) > 0 /\ Len(activities) > 0

\* C5 as stated: after a successful import of a file with no activities
\* field and a routes sequence, activities is that routes sequence
\* unchanged; when the file has an activities field, that field is used
\* (empty when it is not a sequence) and routes is ignored.
C5_LegacyFallbackWhenAbsent ==
    ImportSucceeded =>
        /\ (importFile.activities.t = "missing" /\ importFile.routes.t = "array")
              => activities = importFile.routes.v
        /\ importFile.activities.t # "missing"
              => activities = SequenceOrEmpty(importFile.activities)

\* C5: after a successful import of a file whose activities field is
\* missing or is not a sequence and whose routes field is a sequence,
\* activities is that routes sequence unchanged, no field renamed; when the
\* file's activities field is a sequence it is used and routes is ignored.
C5_LegacyFallback ==
    ImportSucceeded =>
        /\ (importFile.activities.t # "array" /\ importFile.routes.t = "array")
              => /\ activities = importFile.routes.v
                 /\ \A i \in 1..Len(activities) :
                       DOMAIN activities[i] = DOMAIN importFile.routes.v[i]
        /\ importFile.activities.t = "array"
              => activities = importFile.activities.v

C5_Witness ==
    /\ ImportSucceeded
    /\ importFile.activities.t = "missing" /\ importFile.routes.t = "array"
    /\ Len(activities) = 1
    /\ "routeName" \in DOMAIN activities[1] /\ "cost" \in DOMAIN activities[1]
    /\ "location" \notin DOMAIN activities[1]

\* C6: after a successful import that falls back on the legacy routes, every
\* stored activity has the current shape: a location equal to the route's
\* routeName and a revenue equal to the route's cost.
C6_ImportConvertsRoutes ==
    (ImportSucceeded /\ importFile.activities.t # "array"
                     /\ importFile.routes.t = "array") =>
        /\ Len(activities) = Len(importFile.routes.v)
        /\ \A i \in 1..Len(activities) :
              /\ {"location", "revenue"} \subseteq DOMAIN activities[i]
              /\ activities[i].location = importFile.routes.v[i].routeName
              /\ activities[i].revenue = importFile.routes.v[i].cost

----------------------------------------------------------------------------
(* Properties: queries and summaries *)

DriverIdInputs == {"drv-1", "drv-2", "d-7"}
VehicleIdInputs == {"veh-1", "veh-2", "v-7"}
DateInputs == {"2026-01-10", "2026-01-11", "2026-01-12"}
BoundInputs == {null, "", "2026-01-10", "2026-01-11"}

Range(seq) == {seq[i] : i \in 1..Len(seq)}

\* the elements of list at the indices of I, in the order of the list
RECURSIVE Pick(_, _)
Pick(list, I) ==
    IF list = <<>> THEN <<>>
    ELSE LET front == Pick(SubSeq(list, 1, Len(list) - 1), I)
         IN  IF Len(list) \in I THEN Append(front, list[Len(list)]) ELSE front

\* s <= date <= e, a bound that is not given restricting nothing
Within(date, s, e) ==
    /\ given(s) => StrRank(s) <= StrRank(date)
    /\ given(e) => StrRank(date) <= StrRank(e)

\* C7: an activity of the store is in byDriver(d, s, e) exactly when its
\* driverId is d and its date lies in [s, e], a bound that is not given
\* (null or empty) imposing no restriction; byDriver returns stored
\* activities only; the same for byVehicle with vehicleId.
C7_FilterByDriverAndVehicle ==
    \A s \in BoundInputs, e \in BoundInputs :
        LET inRange == {i \in 1..Len(activities) : Within(activities[i].date, s, e)}
        IN  /\ \A d \in DriverIdInputs :
                  LET r == Range(getActivitiesByDriver(activities, d, s, e))
                  IN  /\ r \subseteq Range(activities)
                      /\ \A i \in 1..Len(activities) :
                            activities[i] \in r <=>
                                (activities[i].driverId = d /\ i \in inRange)
            /\ \A v \in VehicleIdInputs :
                  LET r == Range(getActivitiesByVehicle(activities, v, s, e))
                  IN  /\ r \subseteq Range(activities)
                      /\ \A i \in 1..Len(activities) :
                            activities[i] \in r <=>
                                (activities[i].vehicleId = v /\ i \in inRange)

\* a driver with an activity on the start bound, which is kept, and one
\* before it, one after the end bound and one of another driver or vehicle
C7_Witness ==
    \E i, j \in 1..Len(activities) :
        /\ activities[i].driverId = "drv-1" /\ activities[j].driverId = "drv-1"
        /\ activities[i].date = "2026-01-10" /\ activities[j].date = "2026-01-12"
        /\ getActivitiesByDriver(activities, "drv-1", "2026-01-10", "2026-01-11")
              = <<activities[i]>>
        /\ getActivitiesByDriver(activities, "drv-1", "2026-01-11", null)
              = <<activities[j]>>
        /\ Len(getActivitiesByVehicle(activities, "veh-1", "", "2026-01-12")) > 1
        /\ Len(getActivitiesByVehicle(activities, "veh-2", null, null)) = 1

\* C8: byPeriod(s, e) is the stored activities whose date lies in [s, e],
\* both ends included, in stored order, whatever their driver and vehicle;
\* byDriver(d, s, e) is the sub-sequence of byPeriod(s, e) whose driverId is d.
C8_FilterByPeriod ==
    \A s \in DateInputs, e \in DateInputs :
        LET p == getActivitiesByPeriod(activities, s, e)
        IN  /\ p = Pick(activities,
                        {i \in 1..Len(activities) :
                            /\ StrRank(s) <= StrRank(activities[i].date)
                            /\ StrRank(activities[i].date) <= StrRank(e)})
            /\ \A d \in DriverIdInputs :
                  getActivitiesByDriver(activities, d, s, e) =
                      Pick(p, {i \in 1..Len(p) : p[i].driverId = d})

\* activities on both ends of the range, of two drivers, and one outside it
C8_Witness ==
    LET p == getActivitiesByPeriod(activities, "2026-01-10", "2026-01-11")
    IN  /\ Len(p) = 2 /\ Len(activities) = 3
        /\ p[1].date = "2026-01-10" /\ p[2].date = "2026-01-11"
        /\ p[1].driverId # p[2].driverId

\* the amount the claim lets an activity contribute: its revenue when that
\* is a number (or the digits of one) above 0, and 0 otherwise
ClaimedRevenue(a) ==
    LET r == Get(a, "revenue")
    IN  IF r.t \in {"number", "numericString"} /\ r.v > 0 THEN r.v ELSE 0

RECURSIVE SumClaimedRevenue(_)
SumClaimedRevenue(list) ==
    IF list = <<>> THEN 0
    ELSE SumClaimedRevenue(Tail(list)) + ClaimedRevenue(Head(list))

\* C9: the overall count is the number of stored activities and the overall
\* total revenue is the sum over them of max(0, numeric(revenue)), a
\* missing, non-numeric or negative revenue contributing 0; so the total is
\* a number and is not negative.
C9_OverallTotals ==
    LET o == overallTotals(activities)
    IN  /\ o.totalActivities = Len(activities)
        /\ o.totalRevenue = JsNum(SumClaimedRevenue(activities))

\* the sum of Number(revenue || 0) over the activities at the indices of I
RECURSIVE SumOver(_, _)
SumOver(list, I) ==
    IF I = {} THEN JsNum(0)
    ELSE LET i == CHOOSE k \in I : TRUE
         IN  Plus(SumOver(list, I \ {i}), revenueOf(list[i]))

\* rows holds one row for each record of list: the rows' ids and names (or
\* labels) are those of the records, each as many times
OneRowEach(rows, list, key) ==
    /\ Len(rows) = Len(list)
    /\ \A r \in {<<x.id, x[key]>> : x \in Range(rows) \cup Range(list)} :
          Cardinality({i \in 1..Len(rows) :
                          rows[i].id = r[1] /\ rows[i][key] = r[2]})
            = Cardinality({i \in 1..Len(list) :
                          list[i].id = r[1] /\ list[i][key] = r[2]})

\* non-increasing in total and, among equal totals, non-decreasing in the name
Ordered(rows, key) ==
    \A i \in 1..(Len(rows) - 1) :
        \/ rows[i].total > rows[i + 1].total
        \/ /\ rows[i].total = rows[i + 1].total
           /\ LocaleRank(rows[i][key]) <= LocaleRank(rows[i + 1][key])

\* C10: byDriverTotals has one row for each stored driver; a row's count
\* and revenue are those of the activities whose driverId is the row's id;
\* the rows are non-increasing in count and, among equal counts,
\* non-decreasing in name.  byVehicleTotals likewise, with vehicleId and label.
C10_TotalsByDriverAndVehicle ==
    LET dr == renderDriverRouteSummary(drivers, activities)
        vr == renderVehicleSummary(vehicles, activities)
    IN  /\ OneRowEach(dr, drivers, "name")
        /\ OneRowEach(vr, vehicles, "label")
        /\ \A i \in 1..Len(dr) :
              LET I == {k \in 1..Len(activities) : activities[k].driverId = dr[i].id}
              IN  dr[i].total = Cardinality(I)
                    /\ dr[i].revenue = SumOver(activities, I)
        /\ \A i \in 1..Len(vr) :
              LET I == {k \in 1..Len(activities) : activities[k].vehicleId = vr[i].id}
              IN  vr[i].total = Cardinality(I)
                    /\ vr[i].revenue = SumOver(activities, I)
        /\ Ordered(dr, "name")
        /\ Ordered(vr, "label")

\* three drivers whose rows the sort has to reorder, two of them with equal
\* counts and stored in decreasing order of name
C10_Witness ==
    LET dr == renderDriverRouteSummary(drivers, activities)
    IN  /\ Len(drivers) = 3
        /\ drivers[2].name = "Ben" /\ drivers[3].name = "Abu"
        /\ dr[1].total > dr[2].total
        /\ dr[2].total = dr[3].total
        /\ dr[2].name = "Abu" /\ dr[3].name = "Ben"

----------------------------------------------------------------------------
(* Properties: the custom report *)

CustomReportSubmitted == lastOp = "customReport"

\* C11: a submission of the custom report form with a start date after the
\* end date is answered with the validation alert, leaves the results
\* element and the store as they were, and one whose start date is not
\* after the end date is not rejected: it shows a report for its two dates.
C11_CustomRangeValidation ==
    [][CustomReportSubmitted' =>
         IF StrLess(call'.endDate, call'.startDate)
         THEN /\ call'.ret = "alert"
              /\ summaryPage' = summaryPage
              /\ localStorage' = localStorage
         ELSE /\ call'.ret = "rendered"
              /\ Len(summaryPage'.resultsDiv) = 1
              /\ summaryPage'.resultsDiv[1].startDate = call'.startDate
              /\ summaryPage'.resultsDiv[1].endDate = call'.endDate
              /\ localStorage' = localStorage]_vars

\* a rejected submission, made while an earlier report of the non-empty
\* store is on the page
C11_Witness ==
    /\ CustomReportSubmitted /\ call.ret = "alert"
    /\ summaryPage.resultsDiv # <<>>
    /\ summaryPage.resultsDiv[1].count > 0

\* C12: the count and the revenue of a custom report are those of the
\* activities of the period that are in the store when the form is submitted.
C12_ReportReflectsStore ==
    (CustomReportSubmitted /\ call.ret = "rendered") =>
        LET period == getActivitiesByPeriod(activities, call.startDate,
                                            call.endDate)
            report == summaryPage.resultsDiv[1]
        IN  /\ report.count = Len(period)
            /\ report.revenue = sumRevenue(period)

----------------------------------------------------------------------------
(* Properties: the repository's updates and additions *)

Updated == lastOp \in {"updateDriver", "updateActivity"}

\* the collection that the last update works on, before and after it
UpdatedKey ==
    IF lastOp = "updateDriver"
    THEN STORAGE_KEYS.drivers ELSE STORAGE_KEYS.activities
OldList == loadList(before, UpdatedKey)
NewList == loadList(localStorage, UpdatedKey)

\* C13: an update leaves every record's id as it was: the record at each
\* position has the id it had before, and the collection's set of ids is
\* the same.
C13_IdImmutable ==
    Updated =>
        /\ Len(NewList) = Len(OldList)
        /\ \A i \in 1..Len(OldList) : NewList[i].id = OldList[i].id
        /\ Ids(NewList) = Ids(OldList)

\* C14: an update of an id that a record has replaces that record, in its
\* position, by the record with the given fields set and every other field
\* kept, leaves all other records alone and returns the merged record; an
\* update of an id that no record has returns null and leaves the store as
\* it was.
C14_UpdateMerges ==
    Updated =>
        LET idx == findIndex(OldList, call.id)
        IN  IF idx > 0
            THEN /\ Len(NewList) = Len(OldList)
                 /\ \A j \in 1..Len(OldList) :
                       j # idx => NewList[j] = OldList[j]
                 /\ DOMAIN NewList[idx] =
                       DOMAIN OldList[idx] \cup DOMAIN call.fields
                 /\ \A f \in DOMAIN call.fields :
                       NewList[idx][f] = call.fields[f]
                 /\ \A f \in DOMAIN OldList[idx] \ DOMAIN call.fields :
                       NewList[idx][f] = OldList[idx][f]
                 /\ call.ret = NewList[idx]
            ELSE /\ call.ret = NoRecord
                 /\ localStorage = before

\* an update of the first of several activities that changes it
C14_Witness ==
    /\ lastOp = "updateActivity"
    /\ findIndex(OldList, call.id) = 1
    /\ Len(OldList) > 1
    /\ NewList[1] # OldList[1]
    /\ \E f \in DOMAIN OldList[1] : f \notin DOMAIN call.fields

\* C15: addDriver with a name that is empty once trimmed changes nothing,
\* addDriver with any other name appends one driver with the trimmed name,
\* and no stored driver has the empty name.
C15_AddDriverEmptyName ==
    /\ \A i \in 1..Len(drivers) : drivers[i].name # ""
    /\ lastOp = "addDriver" =>
          LET old == loadList(before, STORAGE_KEYS.drivers)
          IN  IF trim(call.name) = ""
              THEN localStorage = before
              ELSE /\ Len(drivers) = Len(old) + 1
                   /\ SubSeq(drivers, 1, Len(old)) = old
                   /\ drivers[Len(drivers)].name = trim(call.name)

\* C16: an operation of the repository keeps every driver id and every
\* vehicle id in the store and shortens neither collection, and only
\* deleteActivity shortens the activities.
C16_DriversAndVehiclesStay ==
    lastOp \in {"addDriver", "updateDriver", "addVehicle", "addActivity",
                "updateActivity", "deleteActivity"} =>
        LET old == Collections(before)
        IN  /\ Ids(old.drivers) \subseteq Ids(drivers)
            /\ Ids(old.vehicles) \subseteq Ids(vehicles)
            /\ Len(drivers) >= Len(old.drivers)
            /\ Len(vehicles) >= Len(old.vehicles)
            /\ lastOp # "deleteActivity" =>
                  Len(activities) >= Len(old.activities)

----------------------------------------------------------------------------
(* Properties: the import's completion callback *)

\* C19: an import whose file has been read calls onComplete exactly once:
\* with the error, and then the store is as it was, or without an error, and
\* then each of the three collections has been saved.
C19_CallbackOnce ==
    Imported =>
        /\ Len(onCompleteCalls) = 1
        /\ onCompleteCalls[1] = "err" => localStorage = before
        /\ onCompleteCalls[1] = "ok" =>
              \A k \in Keys : localStorage[k].t = "array"

----------------------------------------------------------------------------
(* Properties: the last activity and the time-based summaries *)

LastAsked == lastOp \in {"getLastActivityByDriver", "getLastActivityByVehicle"}

\* the positions of the activities of the driver or vehicle asked about
Mine ==
    {i \in 1..Len(activities) :
        IF lastOp = "getLastActivityByDriver"
        THEN activities[i].driverId = call.id
        ELSE activities[i].vehicleId = call.id}

\* C17: the last activity of a driver or vehicle is null exactly when no
\* stored activity is of that driver or vehicle, and is otherwise one of its
\* stored activities, and none of its activities has a later date (dates
\* that are not dates are left out of the comparison).
C17_LastActivityHasMaxDate ==
    LastAsked =>
        /\ call.ret = NoRecord <=> Mine = {}
        /\ Mine # {} =>
              /\ \E i \in Mine : activities[i] = call.ret
              /\ \A j \in Mine :
                    (WellFormed(call.ret.date)
                       /\ WellFormed(activities[j].date)) =>
                        ~StrLess(call.ret.date, activities[j].date)

Summarized == lastOp = "computeSummary"

\* the positions of the activities that a summary has counted, read off
\* its total revenue
Counted(summary) ==
    {i \in 1..Len(activities) :
        (summary.totalRevenue.v \div activities[i].revenue.v) % 2 = 1}

\* the hours from midnight UTC of a date to the instant t
Age(isoDate, t) == t - DayNumber(isoDate) * HoursPerDay

\* the positions of the activities whose date is not a date or is at most
\* `days` days before t
WithinOrMalformed(days, t) ==
    {i \in 1..Len(activities) :
        \/ ~WellFormed(activities[i].date)
        \/ Age(activities[i].date, t) <= days * HoursPerDay}

\* the positions of the activities whose date is a date at most `days` days
\* before t
WithinDays(days, t) ==
    {i \in 1..Len(activities) :
        /\ WellFormed(activities[i].date)
        /\ Age(activities[i].date, t) <= days * HoursPerDay}

\* C18 as stated: the weekly and the monthly summary count the activities
\* dated at most 7 and 30 days before now, those dated in the future among
\* them, and also the activities whose date is malformed.
C18_WindowCountsMalformed ==
    Summarized =>
        /\ Counted(call.ret.weekly) = WithinOrMalformed(7, call.now[2])
        /\ Counted(call.ret.monthly) = WithinOrMalformed(30, call.now[3])

\* C18, amended: the weekly and the monthly summary count exactly the
\* activities whose date parses and lies at most 7 and 30 days before now,
\* those dated in the future among them; an activity whose date is
\* malformed is counted in neither.
C18_WindowCounts ==
    Summarized =>
        LET weekly == call.ret.weekly
            monthly == call.ret.monthly
        IN  /\ Counted(weekly) = WithinDays(7, call.now[2])
            /\ Counted(monthly) = WithinDays(30, call.now[3])
            /\ weekly.totalActivities = Cardinality(Counted(weekly))
            /\ monthly.totalActivities = Cardinality(Counted(monthly))
            /\ \A i \in 1..Len(activities) :
                  LET date == activities[i].date
                  IN  /\ (WellFormed(date) /\ Age(date, call.now[1]) < 0) =>
                            i \in Counted(weekly) \cap Counted(monthly)
                      /\ ~WellFormed(date) =>
                            i \notin Counted(weekly) \cup Counted(monthly)

\* a summary over an activity dated in the future, one dated exactly seven
\* days ago and one with a malformed date
C18_Witness ==
    /\ Summarized
    /\ \E i, j, k \in 1..Len(activities) :
          /\ WellFormed(activities[i].date)
          /\ Age(activities[i].date, call.now[3]) < 0
          /\ WellFormed(activities[j].date)
          /\ Age(activities[j].date, call.now[2]) = 7 * HoursPerDay
          /\ ~WellFormed(activities[k].date)
    /\ call.ret.weekly.totalActivities = 2

\* C20: what one computeSummary counts for today it counts for the week,
\* and what it counts for the week it counts for the month; so the three
\* counts are in that order.
C20_DailyWeeklyMonthly ==
    Summarized =>
        LET ret == call.ret
        IN  /\ Counted(ret.daily) \subseteq Counted(ret.weekly)
            /\ Counted(ret.weekly) \subseteq Counted(ret.monthly)
            /\ ret.daily.totalActivities <= ret.weekly.totalActivities
            /\ ret.weekly.totalActivities <= ret.monthly.totalActivities

\* a summary that counts one activity for today, two for the week and three
\* for the month, the clock having moved on between the passes
C20_Witness ==
    /\ Summarized
    /\ call.ret.daily.totalActivities = 1
    /\ call.ret.weekly.totalActivities = 2
    /\ call.ret.monthly.totalActivities = 3
    /\ call.now[1] < call.now[2] /\ call.now[2] < call.now[3]

====
